---- MODULE Spec2Model ----
(***************************************************************************)
(* Consistent-hashing ring with virtual nodes (hash_ring.py), its hash     *)
(* function (hash_function.py) and the read-only key mapper of             *)
(* rebalancer.py, as a state machine: one HashRing object, one action per  *)
(* public operation.                                                       *)
(***************************************************************************)
EXTENDS Integers, Sequences, FiniteSets, TLC

\* Width of the ring in bits. The program uses 32 (HashFunction.RING_BITS);
\* the model keeps the leading RING_BITS bits of the same SHA-1 digest, so
\* that collisions between virtual nodes happen on a ring this small.
RING_BITS == 3

RING_SIZE == 2 ^ RING_BITS

\* Largest vnodes_per_node a ring is constructed with.
MaxK == 2

\* Cap on the collision re-hash counter of add_node.
MaxAttempt == 8

\* Largest num_keys a key sample is generated with.
MaxKeys == 4

\* Most keys in a mapping handed to moved_key_stats on its own.
MaxStatKeys == 3

\* Physical node identifiers the callers use, in lexicographic order
\* (main.py names its nodes node_<i>).
NodeIds == <<"node_0", "node_1", "node_2">>

NodeIdSet == {NodeIds[i] : i \in 1..Len(NodeIds)}

\* The identifiers of a larger cluster, in lexicographic order: enough
\* nodes to occupy every position of the ring.
AllNodeIds == NodeIds \o <<"node_3", "node_4">>

AllNodeIdSet == {AllNodeIds[i] : i \in 1..Len(AllNodeIds)}

\* main.py generate_keys: the keys random.Random(42) produces,
\* f"user:{rng.getrandbits(64):016x}"; a longer sample extends a shorter one.
GeneratedKeys ==
    <<"user:1c80317fa3b1799d", "user:bdd640fb06671ad1", "user:3eb13b9046685257",
      "user:23b8c1e9392456de", "user:1a3d1fa7bc8960a9", "user:bd9c66b3ad3c2d6d",
      "user:8b9d2434e465e150", "user:972a846916419f82">>

generate_keys(n) == SubSeq(GeneratedKeys, 1, n)

\* The keys single lookups are made with.
Keys == {GeneratedKeys[i] : i \in 1..Len(GeneratedKeys)}

\* Python's None.
None == "None"

VARIABLES
    ring,        \* the HashRing object: vnodes_per_node, positions, vnode_at, positions_by_node
    outcome,     \* the last call: op, args, exception raised ("" if none), value returned
    last_call    \* history: per node id, its last add_node/remove_node call that succeeded

vars == <<ring, outcome, last_call>>

----------------------------------------------------------------------------
\* hash_function.py

\* The first two bytes (big-endian, unsigned) of the SHA-1 digest of the
\* UTF-8 encoding of each string the model hashes.
Sha1Digest ==
       ("node_0#vn0" :> 4316)
    @@ ("node_0#vn0@1" :> 42721)
    @@ ("node_0#vn0@2" :> 23015)
    @@ ("node_0#vn0@3" :> 44152)
    @@ ("node_0#vn0@4" :> 2726)
    @@ ("node_0#vn0@5" :> 26883)
    @@ ("node_0#vn0@6" :> 19090)
    @@ ("node_0#vn0@7" :> 11393)
    @@ ("node_0#vn0@8" :> 10538)
    @@ ("node_0#vn0@9" :> 2505)
    @@ ("node_0#vn0@10" :> 30378)
    @@ ("node_0#vn1" :> 28971)
    @@ ("node_0#vn1@1" :> 57373)
    @@ ("node_0#vn1@2" :> 57963)
    @@ ("node_0#vn1@3" :> 4249)
    @@ ("node_0#vn1@4" :> 48061)
    @@ ("node_0#vn1@5" :> 53907)
    @@ ("node_0#vn1@6" :> 45484)
    @@ ("node_0#vn1@7" :> 58629)
    @@ ("node_0#vn1@8" :> 10480)
    @@ ("node_0#vn1@9" :> 13119)
    @@ ("node_0#vn1@10" :> 25553)
    @@ ("node_0#vn2" :> 31724)
    @@ ("node_0#vn2@1" :> 21005)
    @@ ("node_0#vn2@2" :> 37817)
    @@ ("node_0#vn2@3" :> 18319)
    @@ ("node_0#vn2@4" :> 19562)
    @@ ("node_0#vn2@5" :> 55761)
    @@ ("node_0#vn2@6" :> 40563)
    @@ ("node_0#vn2@7" :> 46005)
    @@ ("node_0#vn2@8" :> 7215)
    @@ ("node_0#vn2@9" :> 44184)
    @@ ("node_0#vn2@10" :> 40688)
    @@ ("node_0#vn3" :> 25856)
    @@ ("node_0#vn3@1" :> 64562)
    @@ ("node_0#vn3@2" :> 1504)
    @@ ("node_0#vn3@3" :> 27171)
    @@ ("node_0#vn3@4" :> 5126)
    @@ ("node_0#vn3@5" :> 26086)
    @@ ("node_0#vn3@6" :> 25457)
    @@ ("node_0#vn3@7" :> 16147)
    @@ ("node_0#vn3@8" :> 10900)
    @@ ("node_0#vn3@9" :> 52795)
    @@ ("node_0#vn3@10" :> 31680)
    @@ ("node_1#vn0" :> 3518)
    @@ ("node_1#vn0@1" :> 36591)
    @@ ("node_1#vn0@2" :> 23345)
    @@ ("node_1#vn0@3" :> 27757)
    @@ ("node_1#vn0@4" :> 46361)
    @@ ("node_1#vn0@5" :> 3050)
    @@ ("node_1#vn0@6" :> 61114)
    @@ ("node_1#vn0@7" :> 12044)
    @@ ("node_1#vn0@8" :> 42981)
    @@ ("node_1#vn0@9" :> 40917)
    @@ ("node_1#vn0@10" :> 48662)
    @@ ("node_1#vn1" :> 38038)
    @@ ("node_1#vn1@1" :> 19368)
    @@ ("node_1#vn1@2" :> 37597)
    @@ ("node_1#vn1@3" :> 51352)
    @@ ("node_1#vn1@4" :> 8126)
    @@ ("node_1#vn1@5" :> 38492)
    @@ ("node_1#vn1@6" :> 17887)
    @@ ("node_1#vn1@7" :> 5624)
    @@ ("node_1#vn1@8" :> 48568)
    @@ ("node_1#vn1@9" :> 22860)
    @@ ("node_1#vn1@10" :> 43454)
    @@ ("node_1#vn2" :> 28907)
    @@ ("node_1#vn2@1" :> 34247)
    @@ ("node_1#vn2@2" :> 59588)
    @@ ("node_1#vn2@3" :> 57475)
    @@ ("node_1#vn2@4" :> 22409)
    @@ ("node_1#vn2@5" :> 23228)
    @@ ("node_1#vn2@6" :> 26400)
    @@ ("node_1#vn2@7" :> 24782)
    @@ ("node_1#vn2@8" :> 59229)
    @@ ("node_1#vn2@9" :> 62840)
    @@ ("node_1#vn2@10" :> 35451)
    @@ ("node_1#vn3" :> 54989)
    @@ ("node_1#vn3@1" :> 6545)
    @@ ("node_1#vn3@2" :> 4158)
    @@ ("node_1#vn3@3" :> 46144)
    @@ ("node_1#vn3@4" :> 60485)
    @@ ("node_1#vn3@5" :> 56356)
    @@ ("node_1#vn3@6" :> 10981)
    @@ ("node_1#vn3@7" :> 50264)
    @@ ("node_1#vn3@8" :> 63836)
    @@ ("node_1#vn3@9" :> 47580)
    @@ ("node_1#vn3@10" :> 55201)
    @@ ("node_2#vn0" :> 24508)
    @@ ("node_2#vn0@1" :> 60749)
    @@ ("node_2#vn0@2" :> 53604)
    @@ ("node_2#vn0@3" :> 52001)
    @@ ("node_2#vn0@4" :> 39789)
    @@ ("node_2#vn0@5" :> 5995)
    @@ ("node_2#vn0@6" :> 62871)
    @@ ("node_2#vn0@7" :> 33338)
    @@ ("node_2#vn0@8" :> 37028)
    @@ ("node_2#vn0@9" :> 5184)
    @@ ("node_2#vn0@10" :> 31147)
    @@ ("node_2#vn1" :> 53717)
    @@ ("node_2#vn1@1" :> 31988)
    @@ ("node_2#vn1@2" :> 18187)
    @@ ("node_2#vn1@3" :> 18997)
    @@ ("node_2#vn1@4" :> 42056)
    @@ ("node_2#vn1@5" :> 28360)
    @@ ("node_2#vn1@6" :> 24525)
    @@ ("node_2#vn1@7" :> 48791)
    @@ ("node_2#vn1@8" :> 12041)
    @@ ("node_2#vn1@9" :> 8333)
    @@ ("node_2#vn1@10" :> 60328)
    @@ ("node_2#vn2" :> 48148)
    @@ ("node_2#vn2@1" :> 28448)
    @@ ("node_2#vn2@2" :> 28856)
    @@ ("node_2#vn2@3" :> 62563)
    @@ ("node_2#vn2@4" :> 43450)
    @@ ("node_2#vn2@5" :> 56554)
    @@ ("node_2#vn2@6" :> 60561)
    @@ ("node_2#vn2@7" :> 14344)
    @@ ("node_2#vn2@8" :> 38620)
    @@ ("node_2#vn2@9" :> 16794)
    @@ ("node_2#vn2@10" :> 53539)
    @@ ("node_2#vn3" :> 31392)
    @@ ("node_2#vn3@1" :> 14395)
    @@ ("node_2#vn3@2" :> 34944)
    @@ ("node_2#vn3@3" :> 63126)
    @@ ("node_2#vn3@4" :> 48107)
    @@ ("node_2#vn3@5" :> 65190)
    @@ ("node_2#vn3@6" :> 6789)
    @@ ("node_2#vn3@7" :> 22410)
    @@ ("node_2#vn3@8" :> 31335)
    @@ ("node_2#vn3@9" :> 49577)
    @@ ("node_2#vn3@10" :> 26323)
    @@ ("node_3#vn0" :> 8549)
    @@ ("node_3#vn0@1" :> 35008)
    @@ ("node_3#vn0@2" :> 46521)
    @@ ("node_3#vn0@3" :> 45928)
    @@ ("node_3#vn0@4" :> 37965)
    @@ ("node_3#vn0@5" :> 24063)
    @@ ("node_3#vn0@6" :> 44919)
    @@ ("node_3#vn0@7" :> 16748)
    @@ ("node_3#vn0@8" :> 2316)
    @@ ("node_3#vn0@9" :> 64616)
    @@ ("node_3#vn0@10" :> 42551)
    @@ ("node_3#vn1" :> 47033)
    @@ ("node_3#vn1@1" :> 60412)
    @@ ("node_3#vn1@2" :> 63793)
    @@ ("node_3#vn1@3" :> 60977)
    @@ ("node_3#vn1@4" :> 10147)
    @@ ("node_3#vn1@5" :> 64573)
    @@ ("node_3#vn1@6" :> 59551)
    @@ ("node_3#vn1@7" :> 48412)
    @@ ("node_3#vn1@8" :> 57858)
    @@ ("node_3#vn1@9" :> 35770)
    @@ ("node_3#vn1@10" :> 16804)
    @@ ("node_3#vn2" :> 14608)
    @@ ("node_3#vn2@1" :> 37810)
    @@ ("node_3#vn2@2" :> 47483)
    @@ ("node_3#vn2@3" :> 48559)
    @@ ("node_3#vn2@4" :> 56520)
    @@ ("node_3#vn2@5" :> 33702)
    @@ ("node_3#vn2@6" :> 13422)
    @@ ("node_3#vn2@7" :> 25750)
    @@ ("node_3#vn2@8" :> 28621)
    @@ ("node_3#vn2@9" :> 28009)
    @@ ("node_3#vn2@10" :> 26119)
    @@ ("node_3#vn3" :> 22026)
    @@ ("node_3#vn3@1" :> 36734)
    @@ ("node_3#vn3@2" :> 60162)
    @@ ("node_3#vn3@3" :> 62373)
    @@ ("node_3#vn3@4" :> 41696)
    @@ ("node_3#vn3@5" :> 21630)
    @@ ("node_3#vn3@6" :> 57475)
    @@ ("node_3#vn3@7" :> 49752)
    @@ ("node_3#vn3@8" :> 31422)
    @@ ("node_3#vn3@9" :> 27669)
    @@ ("node_3#vn3@10" :> 35707)
    @@ ("node_4#vn0" :> 28005)
    @@ ("node_4#vn0@1" :> 20408)
    @@ ("node_4#vn0@2" :> 7966)
    @@ ("node_4#vn0@3" :> 57219)
    @@ ("node_4#vn0@4" :> 59171)
    @@ ("node_4#vn0@5" :> 58039)
    @@ ("node_4#vn0@6" :> 9474)
    @@ ("node_4#vn0@7" :> 42168)
    @@ ("node_4#vn0@8" :> 58577)
    @@ ("node_4#vn0@9" :> 17299)
    @@ ("node_4#vn0@10" :> 63578)
    @@ ("node_4#vn1" :> 39050)
    @@ ("node_4#vn1@1" :> 17226)
    @@ ("node_4#vn1@2" :> 32090)
    @@ ("node_4#vn1@3" :> 63667)
    @@ ("node_4#vn1@4" :> 52620)
    @@ ("node_4#vn1@5" :> 29427)
    @@ ("node_4#vn1@6" :> 7700)
    @@ ("node_4#vn1@7" :> 819)
    @@ ("node_4#vn1@8" :> 21062)
    @@ ("node_4#vn1@9" :> 28581)
    @@ ("node_4#vn1@10" :> 10568)
    @@ ("node_4#vn2" :> 63152)
    @@ ("node_4#vn2@1" :> 15450)
    @@ ("node_4#vn2@2" :> 32874)
    @@ ("node_4#vn2@3" :> 28657)
    @@ ("node_4#vn2@4" :> 26382)
    @@ ("node_4#vn2@5" :> 40132)
    @@ ("node_4#vn2@6" :> 6422)
    @@ ("node_4#vn2@7" :> 38119)
    @@ ("node_4#vn2@8" :> 29359)
    @@ ("node_4#vn2@9" :> 25775)
    @@ ("node_4#vn2@10" :> 20244)
    @@ ("node_4#vn3" :> 7441)
    @@ ("node_4#vn3@1" :> 5390)
    @@ ("node_4#vn3@2" :> 49257)
    @@ ("node_4#vn3@3" :> 47881)
    @@ ("node_4#vn3@4" :> 39795)
    @@ ("node_4#vn3@5" :> 29574)
    @@ ("node_4#vn3@6" :> 45576)
    @@ ("node_4#vn3@7" :> 16605)
    @@ ("node_4#vn3@8" :> 42826)
    @@ ("node_4#vn3@9" :> 58788)
    @@ ("node_4#vn3@10" :> 23542)
    @@ ("user:1c80317fa3b1799d" :> 48425)
    @@ ("user:bdd640fb06671ad1" :> 26577)
    @@ ("user:3eb13b9046685257" :> 50005)
    @@ ("user:23b8c1e9392456de" :> 48470)
    @@ ("user:1a3d1fa7bc8960a9" :> 59787)
    @@ ("user:bd9c66b3ad3c2d6d" :> 27371)
    @@ ("user:8b9d2434e465e150" :> 3291)
    @@ ("user:972a846916419f82" :> 10926)

\* sha1(data.encode("utf-8")).digest()[:2] as a big-endian unsigned integer.
sha1_digest(data) == Sha1Digest[data]

\* HashFunction.hash32: the leading bits of the digest as an unsigned integer.
hash32(data) == sha1_digest(data) \div (65536 \div RING_SIZE)

----------------------------------------------------------------------------
\* hash_ring.py

Node(node_id) == [node_id |-> node_id]

VNode(physical, replica_index) ==
    [physical |-> physical, replica_index |-> replica_index]

\* VNode.vnode_key: f"{node_id}#vn{replica_index}"
vnode_key(vnode) ==
    vnode.physical.node_id \o "#vn" \o ToString(vnode.replica_index)

\* f"{vnode.vnode_key}@{attempt}"
retry_key(vnode, attempt) == vnode_key(vnode) \o "@" \o ToString(attempt)

\* An empty dict.
EmptyDict == [x \in {} |-> x]

DictSet(d, k, v) == [x \in DOMAIN d \cup {k} |-> IF x = k THEN v ELSE d[x]]

\* dict.pop(k, None) and del d[k]
DictDel(d, k) == [x \in DOMAIN d \ {k} |-> d[x]]

\* list.insert(idx, x) with a 0-based idx
ListInsert(a, idx, x) == SubSeq(a, 1, idx) \o <<x>> \o SubSeq(a, idx + 1, Len(a))

\* list.pop(idx) with a 0-based idx
ListPop(a, idx) == SubSeq(a, 1, idx) \o SubSeq(a, idx + 2, Len(a))

\* bisect.bisect_left(a, x): binary search for the leftmost insertion point,
\* as a 0-based index.
RECURSIVE bisect_loop(_, _, _, _)
bisect_loop(a, x, lo, hi) ==
    IF lo < hi
    THEN LET mid == (lo + hi) \div 2
         IN  IF a[mid + 1] < x
             THEN bisect_loop(a, x, mid + 1, hi)
             ELSE bisect_loop(a, x, lo, mid)
    ELSE lo

\* bisect.bisect_right: the insertion index after the entries equal to x.
RECURSIVE bisect_right_loop(_, _, _, _)
bisect_right_loop(a, x, lo, hi) ==
    IF lo < hi
    THEN LET mid == (lo + hi) \div 2
         IN  IF x < a[mid + 1]
             THEN bisect_right_loop(a, x, lo, mid)
             ELSE bisect_right_loop(a, x, mid + 1, hi)
    ELSE lo

bisect_right(a, x) == bisect_right_loop(a, x, 0, Len(a))

bisect_left(a, x) == bisect_loop(a, x, 0, Len(a))

\* HashRing.__init__ with the default HashFunction, for vnodes_per_node > 0.
HashRing(vnodes_per_node) ==
    [vnodes_per_node   |-> vnodes_per_node,
     positions         |-> <<>>,
     vnode_at          |-> EmptyDict,
     positions_by_node |-> EmptyDict]

\* probe stepping to the next position of the ring on a collision (linear
\* probing) instead of re-hashing the key with the attempt suffix.
RECURSIVE probe_linear(_, _, _, _)
probe_linear(self, vnode, pos, attempt) ==
    IF pos \notin DOMAIN self.vnode_at
    THEN pos
    ELSE IF attempt + 1 > MaxAttempt
         THEN -1
         ELSE probe_linear(self, vnode, (pos + 1) % RING_SIZE, attempt + 1)

\* probe without the collision loop: the candidate position is taken as is.
probe_no_collision_loop(self, vnode, pos, attempt) == pos

\* The collision loop of add_node: the position the virtual node ends at,
\* or -1 when the attempt counter would pass MaxAttempt.
RECURSIVE probe(_, _, _, _)
probe(self, vnode, pos, attempt) ==
    IF pos \notin DOMAIN self.vnode_at
    THEN pos
    ELSE IF attempt + 1 > MaxAttempt
         THEN -1
         ELSE probe(self, vnode, hash32(retry_key(vnode, attempt + 1)), attempt + 1)

\* place_vnode with the position appended instead of inserted at its
\* bisect_left index.
place_vnode_append(self, node, i, pos) ==
    LET vnode == VNode(node, i)
    IN  [self EXCEPT !.positions = Append(self.positions, pos),
                     !.vnode_at  = DictSet(self.vnode_at, pos, vnode)]

\* place_vnode with the position put in front of the list, so that the
\* order of the positions is the reverse of the order of the adds.
place_vnode_prepend(self, node, i, pos) ==
    LET vnode == VNode(node, i)
    IN  [self EXCEPT !.positions = <<pos>> \o self.positions,
                     !.vnode_at  = DictSet(self.vnode_at, pos, vnode)]

\* One pass of the for loop of add_node, for replica index i.
place_vnode(self, node, i, pos) ==
    LET vnode == VNode(node, i)
        idx   == bisect_left(self.positions, pos)
    IN  [self EXCEPT !.positions = ListInsert(self.positions, idx, pos),
                     !.vnode_at  = DictSet(self.vnode_at, pos, vnode)]

\* The for loop of add_node from replica index i on.
RECURSIVE add_vnodes(_, _, _, _)
add_vnodes(self, node, i, pos_list) ==
    IF i >= self.vnodes_per_node
    THEN [self |-> self, pos_list |-> pos_list, completed |-> TRUE]
    ELSE LET vnode == VNode(node, i)
             pos   == probe(self, vnode, hash32(vnode_key(vnode)), 0)
         IN  IF pos = -1
             THEN [self |-> self, pos_list |-> pos_list, completed |-> FALSE]
             ELSE add_vnodes(place_vnode(self, node, i, pos), node, i + 1,
                             Append(pos_list, pos))

\* add_node without the duplicate check.
add_node_no_duplicate_check(self, node) ==
    LET r == add_vnodes(self, node, 0, <<>>)
    IN  [self |-> [r.self EXCEPT !.positions_by_node =
                       DictSet(r.self.positions_by_node, node.node_id, r.pos_list)],
         completed |-> r.completed,
         raised |-> ""]

\* HashRing.add_node
add_node(self, node) ==
    IF node.node_id \in DOMAIN self.positions_by_node
    THEN [self |-> self, completed |-> TRUE,
          raised |-> "ValueError: Node " \o node.node_id \o " already exists in ring"]
    ELSE LET r == add_vnodes(self, node, 0, <<>>)
         IN  [self |-> [r.self EXCEPT !.positions_by_node =
                            DictSet(r.self.positions_by_node, node.node_id, r.pos_list)],
              completed |-> r.completed,
              raised |-> ""]

\* remove_positions leaving the loop after its first pass.
remove_positions_first_only(self, pos_list, n) ==
    IF n > Len(pos_list)
    THEN [self |-> self, raised |-> ""]
    ELSE LET pos     == pos_list[n]
             popped  == [self EXCEPT !.vnode_at = DictDel(self.vnode_at, pos)]
             idx     == bisect_left(popped.positions, pos)
         IN  IF idx >= Len(popped.positions) \/ popped.positions[idx + 1] # pos
             THEN [self |-> popped,
                   raised |-> "RuntimeError: Ring corruption: position missing from sorted index"]
             ELSE [self |-> [popped EXCEPT !.positions = ListPop(popped.positions, idx)],
                   raised |-> ""]

\* The for loop of remove_node from the n-th position of the node's list on.
RECURSIVE remove_positions(_, _, _)
remove_positions(self, pos_list, n) ==
    IF n > Len(pos_list)
    THEN [self |-> self, raised |-> ""]
    ELSE LET pos     == pos_list[n]
             popped  == [self EXCEPT !.vnode_at = DictDel(self.vnode_at, pos)]
             idx     == bisect_left(popped.positions, pos)
         IN  IF idx >= Len(popped.positions) \/ popped.positions[idx + 1] # pos
             THEN [self |-> popped,
                   raised |-> "RuntimeError: Ring corruption: position missing from sorted index"]
             ELSE remove_positions(
                      [popped EXCEPT !.positions = ListPop(popped.positions, idx)],
                      pos_list, n + 1)

\* remove_node deleting the node's entry only, its virtual nodes left on the ring.
remove_node_keeps_vnodes(self, node_id) ==
    IF node_id \notin DOMAIN self.positions_by_node
    THEN [self |-> self,
          raised |-> "ValueError: Node " \o node_id \o " not found in ring"]
    ELSE [self |-> [self EXCEPT !.positions_by_node =
                       DictDel(self.positions_by_node, node_id)],
          raised |-> ""]

\* remove_node returning quietly for an identifier that is not in the ring.
remove_node_ignores_unknown(self, node_id) ==
    IF node_id \notin DOMAIN self.positions_by_node
    THEN [self |-> self, raised |-> ""]
    ELSE LET r == remove_positions(self, self.positions_by_node[node_id], 1)
         IN  IF r.raised # ""
             THEN r
             ELSE [self |-> [r.self EXCEPT !.positions_by_node =
                                DictDel(r.self.positions_by_node, node_id)],
                   raised |-> ""]

\* remove_node rebuilding the ring: the remaining nodes are added afresh,
\* in sorted order, to an empty ring.
RECURSIVE rebuild(_, _, _)
rebuild(self, ids, n) ==
    IF n > Len(ids)
    THEN self
    ELSE rebuild(add_node(self, Node(ids[n])).self, ids, n + 1)

remove_node_rebuild(self, node_id) ==
    IF node_id \notin DOMAIN self.positions_by_node
    THEN [self |-> self,
          raised |-> "ValueError: Node " \o node_id \o " not found in ring"]
    ELSE LET rest == SelectSeq(AllNodeIds,
                               LAMBDA n : /\ n \in DOMAIN self.positions_by_node
                                          /\ n # node_id)
         IN  [self |-> rebuild(HashRing(self.vnodes_per_node), rest, 1),
              raised |-> ""]

\* remove_node emptying the node's position list instead of deleting the
\* node's entry of positions_by_node.
remove_node_keeps_entry(self, node_id) ==
    IF node_id \notin DOMAIN self.positions_by_node
    THEN [self |-> self,
          raised |-> "ValueError: Node " \o node_id \o " not found in ring"]
    ELSE LET r == remove_positions(self, self.positions_by_node[node_id], 1)
         IN  IF r.raised # ""
             THEN r
             ELSE [self |-> [r.self EXCEPT !.positions_by_node[node_id] = <<>>],
                   raised |-> ""]

\* HashRing.remove_node
remove_node(self, node_id) ==
    IF node_id \notin DOMAIN self.positions_by_node
    THEN [self |-> self,
          raised |-> "ValueError: Node " \o node_id \o " not found in ring"]
    ELSE LET r == remove_positions(self, self.positions_by_node[node_id], 1)
         IN  IF r.raised # ""
             THEN r
             ELSE [self |-> [r.self EXCEPT !.positions_by_node =
                                DictDel(r.self.positions_by_node, node_id)],
                   raised |-> ""]

\* get_node_for_key wrapping to the last index instead of index 0.
get_node_for_key_no_wrap(self, key) ==
    IF Len(self.positions) = 0
    THEN [self |-> self, raised |-> "ValueError: Ring is empty", result |-> None]
    ELSE LET h    == hash32(key)
             idx0 == bisect_left(self.positions, h)
             idx  == IF idx0 = Len(self.positions) THEN idx0 - 1 ELSE idx0
             pos  == self.positions[idx + 1]
         IN  IF pos \notin DOMAIN self.vnode_at
             THEN [self |-> self, raised |-> "KeyError", result |-> None]
             ELSE [self |-> self, raised |-> "", result |-> self.vnode_at[pos].physical]

\* get_node_for_key answering an empty ring with a default node.
get_node_for_key_fallback(self, key) ==
    IF Len(self.positions) = 0
    THEN [self |-> self, raised |-> "", result |-> Node(NodeIds[1])]
    ELSE LET h    == hash32(key)
             idx0 == bisect_left(self.positions, h)
             idx  == IF idx0 = Len(self.positions) THEN 0 ELSE idx0
             pos  == self.positions[idx + 1]
         IN  IF pos \notin DOMAIN self.vnode_at
             THEN [self |-> self, raised |-> "KeyError", result |-> None]
             ELSE [self |-> self, raised |-> "", result |-> self.vnode_at[pos].physical]

\* get_node_for_key reading the mapping with dict.pop(pos) instead of [pos].
get_node_for_key_pops(self, key) ==
    IF Len(self.positions) = 0
    THEN [self |-> self, raised |-> "ValueError: Ring is empty", result |-> None]
    ELSE LET h    == hash32(key)
             idx0 == bisect_left(self.positions, h)
             idx  == IF idx0 = Len(self.positions) THEN 0 ELSE idx0
             pos  == self.positions[idx + 1]
         IN  IF pos \notin DOMAIN self.vnode_at
             THEN [self |-> self, raised |-> "KeyError", result |-> None]
             ELSE [self |-> [self EXCEPT !.vnode_at = DictDel(self.vnode_at, pos)],
                   raised |-> "", result |-> self.vnode_at[pos].physical]

\* get_node_for_key placing keys by hash modulo the number of nodes, the
\* scheme consistent hashing replaces.
get_node_for_key_modulo(self, key) ==
    IF Len(self.positions) = 0
    THEN [self |-> self, raised |-> "ValueError: Ring is empty", result |-> None]
    ELSE LET nodes == SelectSeq(AllNodeIds,
                                LAMBDA n : n \in DOMAIN self.positions_by_node)
         IN  [self |-> self, raised |-> "",
              result |-> Node(nodes[(hash32(key) % Len(nodes)) + 1])]

\* HashRing.get_node_for_key
get_node_for_key(self, key) ==
    IF Len(self.positions) = 0
    THEN [self |-> self, raised |-> "ValueError: Ring is empty", result |-> None]
    ELSE LET h    == hash32(key)
             idx0 == bisect_left(self.positions, h)
             idx  == IF idx0 = Len(self.positions) THEN 0 ELSE idx0
             pos  == self.positions[idx + 1]
         IN  IF pos \notin DOMAIN self.vnode_at
             THEN [self |-> self, raised |-> "KeyError", result |-> None]
             ELSE [self |-> self, raised |-> "", result |-> self.vnode_at[pos].physical]

\* HashRing.list_nodes: the node ids in sorted (lexicographic) order.
list_nodes(self) ==
    SelectSeq(AllNodeIds, LAMBDA n : n \in DOMAIN self.positions_by_node)

\* HashRing.total_vnodes
total_vnodes(self) == Len(self.positions)

\* HashRing.__len__
len(self) == Cardinality(DOMAIN self.positions_by_node)

----------------------------------------------------------------------------
\* rebalancer.py

\* The for loop of map_keys from the n-th key on.
RECURSIVE map_keys_loop(_, _, _, _)
map_keys_loop(self, keys, n, out) ==
    IF n > Len(keys)
    THEN [self |-> self, raised |-> "", result |-> out]
    ELSE LET r == get_node_for_key(self, keys[n])
         IN  IF r.raised # ""
             THEN [self |-> r.self, raised |-> r.raised, result |-> None]
             ELSE map_keys_loop(r.self, keys, n + 1,
                                DictSet(out, keys[n], r.result.node_id))

\* Rebalancer.map_keys
map_keys(self, keys) == map_keys_loop(self, keys, 1, EmptyDict)

\* sum(1 for k in before if before[k] != after[k]), over the keys still to
\* visit.
RECURSIVE count_moved(_, _, _)
count_moved(todo, before, after) ==
    IF todo = {}
    THEN 0
    ELSE LET k == CHOOSE x \in todo : TRUE
         IN  (IF before[k] # after[k] THEN 1 ELSE 0)
                 + count_moved(todo \ {k}, before, after)

\* A float that is the quotient of two integers.
Quotient(num, den) == [num |-> num, den |-> den]

\* moved_key_stats accepting a before whose keys are all keys of after.
moved_key_stats_subset_check(before, after) ==
    IF ~(DOMAIN before \subseteq DOMAIN after)
    THEN [raised |-> "ValueError: Key sets differ; cannot compare movement",
          result |-> None]
    ELSE LET total == Cardinality(DOMAIN before)
             moved == count_moved(DOMAIN before, before, after)
             pct   == IF total # 0 THEN Quotient(moved * 100, total) ELSE Quotient(0, 1)
         IN  [raised |-> "",
              result |-> [moved |-> moved, total |-> total, pct |-> pct]]

\* Rebalancer.moved_key_stats: (moved, total, pct)
moved_key_stats(before, after) ==
    IF DOMAIN before # DOMAIN after
    THEN [raised |-> "ValueError: Key sets differ; cannot compare movement",
          result |-> None]
    ELSE LET total == Cardinality(DOMAIN before)
             moved == count_moved(DOMAIN before, before, after)
             pct   == IF total # 0 THEN Quotient(moved * 100, total) ELSE Quotient(0, 1)
         IN  [raised |-> "",
              result |-> [moved |-> moved, total |-> total, pct |-> pct]]

\* Counter(mapping.values()): how many keys each node that appears owns.
Counter(mapping) ==
    [n \in {mapping[k] : k \in DOMAIN mapping} |->
        Cardinality({k \in DOMAIN mapping : mapping[k] = n})]

\* sum(f(v) for v in values) over the counts of the nodes still to visit;
\* power is 1 for the sum and 2 for the sum of squares.
RECURSIVE sum_values(_, _, _)
sum_values(counts, todo, power) ==
    IF todo = {}
    THEN 0
    ELSE LET n == CHOOSE x \in todo : TRUE
         IN  (IF power = 2 THEN counts[n] * counts[n] ELSE counts[n])
                 + sum_values(counts, todo \ {n}, power)

\* min(values) for smallest = TRUE and max(values) otherwise, over the
\* counts of the nodes still to visit, best being the extreme so far.
RECURSIVE extreme_value(_, _, _, _)
extreme_value(counts, todo, best, smallest) ==
    IF todo = {}
    THEN best
    ELSE LET n == CHOOSE x \in todo : TRUE
             better == IF smallest THEN counts[n] < best ELSE counts[n] > best
         IN  extreme_value(counts, todo \ {n},
                           IF better THEN counts[n] ELSE best, smallest)

\* distribution_stats with nodes taken from the mapping's length.
distribution_stats_counts_keys(mapping) ==
    LET counts == Counter(mapping)
        n      == Cardinality(DOMAIN counts)
        total  == sum_values(counts, DOMAIN counts, 1)
        first  == CHOOSE x \in DOMAIN counts : TRUE
    IN  IF n = 0
        THEN [nodes |-> 0, keys |-> 0, mean |-> Quotient(0, 1),
              variance |-> Quotient(0, 1), stdev |-> [sqrt_of |-> Quotient(0, 1)],
              min |-> 0, max |-> 0]
        ELSE LET variance == Quotient(n * sum_values(counts, DOMAIN counts, 2)
                                          - total * total, n * n)
             IN  [nodes    |-> Cardinality(DOMAIN mapping),
                  keys     |-> total,
                  mean     |-> Quotient(total, n),
                  variance |-> variance,
                  stdev    |-> [sqrt_of |-> variance],
                  min |-> extreme_value(counts, DOMAIN counts, counts[first], TRUE),
                  max |-> extreme_value(counts, DOMAIN counts, counts[first], FALSE)]

\* Rebalancer.distribution_stats. mean is sum/n, the population variance
\* sum((x - mean)^2)/n is written (n*sum(x^2) - sum(x)^2)/n^2, and stdev is
\* kept as the square root of the variance.
distribution_stats(mapping) ==
    LET counts == Counter(mapping)
        n      == Cardinality(DOMAIN counts)
        total  == sum_values(counts, DOMAIN counts, 1)
        first  == CHOOSE x \in DOMAIN counts : TRUE
    IN  IF n = 0
        THEN [nodes |-> 0, keys |-> 0, mean |-> Quotient(0, 1),
              variance |-> Quotient(0, 1), stdev |-> [sqrt_of |-> Quotient(0, 1)],
              min |-> 0, max |-> 0]
        ELSE LET variance == Quotient(n * sum_values(counts, DOMAIN counts, 2)
                                          - total * total, n * n)
             IN  [nodes    |-> n,
                  keys     |-> total,
                  mean     |-> Quotient(total, n),
                  variance |-> variance,
                  stdev    |-> [sqrt_of |-> variance],
                  min |-> extreme_value(counts, DOMAIN counts, counts[first], TRUE),
                  max |-> extreme_value(counts, DOMAIN counts, counts[first], FALSE)]

----------------------------------------------------------------------------
\* The state machine: a caller constructs one ring and calls its operations.

\* What a call returns, by the type of the value: a Node, a list of node
\* ids, a count, a key -> node id mapping, the tuple of moved_key_stats or
\* the dict of distribution_stats, each as a list of the one value returned;
\* all are empty when the call raised or returned None.
NoResult ==
    [node |-> <<>>, nodes |-> <<>>, count |-> <<>>, mapping |-> <<>>,
     moved |-> <<>>, stats |-> <<>>]

\* A finished call: the operation, its string arguments, the exception it
\* raised ("" if none) and what it returned.
Call(op, args, raised, result) ==
    [op |-> op, args |-> args, maps |-> <<>>, raised |-> raised, result |-> result]

\* A finished call whose arguments are key -> node id mappings.
CallOnMappings(op, maps, raised, result) ==
    [op |-> op, args |-> <<>>, maps |-> maps, raised |-> raised, result |-> result]

Init ==
    /\ \E k \in 1..MaxK : ring = HashRing(k)
    /\ outcome = Call("__init__", <<>>, "", NoResult)
    /\ last_call = [x \in NodeIdSet |-> None]

AddNode(node_id) ==
    LET r == add_node(ring, Node(node_id))
    IN  /\ r.completed
        /\ ring' = r.self
        /\ outcome' = Call("add_node", <<node_id>>, r.raised, NoResult)
        /\ last_call' = IF r.raised = ""
                        THEN [last_call EXCEPT ![node_id] = "add_node"]
                        ELSE last_call

RemoveNode(node_id) ==
    LET r == remove_node(ring, node_id)
    IN  /\ ring' = r.self
        /\ outcome' = Call("remove_node", <<node_id>>, r.raised, NoResult)
        /\ last_call' = IF r.raised = ""
                        THEN [last_call EXCEPT ![node_id] = "remove_node"]
                        ELSE last_call

GetNodeForKey(key) ==
    LET r == get_node_for_key(ring, key)
    IN  /\ ring' = r.self
        /\ outcome' = Call("get_node_for_key", <<key>>, r.raised,
                           IF r.raised = ""
                           THEN [NoResult EXCEPT !.node = <<r.result>>]
                           ELSE NoResult)
        /\ UNCHANGED last_call

ListNodes ==
    /\ outcome' = Call("list_nodes", <<>>, "",
                       [NoResult EXCEPT !.nodes = <<list_nodes(ring)>>])
    /\ UNCHANGED <<ring, last_call>>

TotalVnodes ==
    /\ outcome' = Call("total_vnodes", <<>>, "",
                       [NoResult EXCEPT !.count = <<total_vnodes(ring)>>])
    /\ UNCHANGED <<ring, last_call>>

NodeCount ==
    /\ outcome' = Call("__len__", <<>>, "",
                       [NoResult EXCEPT !.count = <<len(ring)>>])
    /\ UNCHANGED <<ring, last_call>>

MapKeys(num_keys) ==
    LET keys == generate_keys(num_keys)
        r    == map_keys(ring, keys)
    IN  /\ ring' = r.self
        /\ outcome' = Call("map_keys", keys, r.raised,
                           IF r.raised = ""
                           THEN [NoResult EXCEPT !.mapping = <<r.result>>]
                           ELSE NoResult)
        /\ UNCHANGED last_call

\* print_distribution on the mapping map_keys has just returned, as
\* run_experiment does: distribution_stats of that mapping.
DistributionStats ==
    /\ outcome.op = "map_keys"
    /\ outcome.raised = ""
    /\ LET mapping == outcome.result.mapping[1]
       IN  outcome' = CallOnMappings("distribution_stats", <<mapping>>, "",
                          [NoResult EXCEPT !.stats = <<distribution_stats(mapping)>>])
    /\ UNCHANGED <<ring, last_call>>

Next ==
    \/ \E node_id \in NodeIdSet : AddNode(node_id)
    \/ \E node_id \in NodeIdSet : RemoveNode(node_id)
    \/ \E key \in Keys : GetNodeForKey(key)
    \/ ListNodes
    \/ TotalVnodes
    \/ NodeCount
    \/ \E num_keys \in 0..MaxKeys : MapKeys(num_keys)
    \/ DistributionStats

Spec == Init /\ [][Next]_vars

----------------------------------------------------------------------------
\* moved_key_stats on its own: a static method, applied once to every pair
\* of mappings over a few keys.

\* The key -> node id mappings over subsets of the first MaxStatKeys keys.
Mappings ==
    UNION {[S -> NodeIdSet] :
              S \in SUBSET {GeneratedKeys[i] : i \in 1..MaxStatKeys}}

MovedKeyStats(before, after) ==
    LET r == moved_key_stats(before, after)
    IN  /\ outcome.op = "__init__"
        /\ outcome' = CallOnMappings("moved_key_stats", <<before, after>>, r.raised,
                                     IF r.raised = ""
                                     THEN [NoResult EXCEPT !.moved = <<r.result>>]
                                     ELSE NoResult)
        /\ UNCHANGED <<ring, last_call>>

NextStats == \E before, after \in Mappings : MovedKeyStats(before, after)

SpecStats == Init /\ [][NextStats]_vars

----------------------------------------------------------------------------
\* A cluster that only grows, as run_experiment builds its ring: nodes are
\* added one after another, from a set large enough to fill the ring.

InitFull ==
    /\ \E k \in 1..MaxK : ring = HashRing(k)
    /\ outcome = Call("__init__", <<>>, "", NoResult)
    /\ last_call = [x \in AllNodeIdSet |-> None]

NextFull == \E node_id \in AllNodeIdSet : AddNode(node_id)

SpecFull == InitFull /\ [][NextFull]_vars

----------------------------------------------------------------------------
\* Vocabulary of the properties.

Range(f) == {f[x] : x \in DOMAIN f}

SetMin(S) == CHOOSE p \in S : \A q \in S : p <= q

SetMax(S) == CHOOSE p \in S : \A q \in S : q <= p

\* The positions some virtual node occupies.
Occupied == DOMAIN ring.vnode_at

\* The nodes in the ring.
Live == DOMAIN ring.positions_by_node

\* The clockwise-nearest occupied position at or after h, wrapping to the
\* smallest one.
Successor(S, h) ==
    IF \E p \in S : p >= h
    THEN SetMin({p \in S : p >= h})
    ELSE SetMin(S)

IsLookup(call) == call.op = "get_node_for_key"

DuplicateNode(node_id) == "ValueError: Node " \o node_id \o " already exists in ring"

NodeNotFound(node_id) == "ValueError: Node " \o node_id \o " not found in ring"

EmptyRing == "ValueError: Ring is empty"

----------------------------------------------------------------------------
\* C1: at every operation boundary, after successful and failed add_node and
\* remove_node calls alike, the position list is strictly ascending (hence
\* free of duplicates) and its elements are exactly the keys of vnode_at.
C1_PositionsSortedAndMatchMapping ==
    /\ \A i \in 1..Len(ring.positions) - 1 : ring.positions[i] < ring.positions[i + 1]
    /\ Range(ring.positions) = DOMAIN ring.vnode_at

\* Two nodes were added with a collision re-hash among them, a third call
\* failed, and the list holds several positions.
C1_Witness ==
    /\ outcome.op \in {"add_node", "remove_node"}
    /\ outcome.raised # ""
    /\ Len(ring.positions) >= 4
    /\ \E n \in Live : \E j \in 1..Len(ring.positions_by_node[n]) :
           ring.positions_by_node[n][j] # hash32(vnode_key(VNode(Node(n), j - 1)))

\* C2: on a non-empty ring a lookup of a key hashing to h returns the
\* physical node of the virtual node at the smallest occupied position
\* p >= h (p = h included), and when there is none, the one at the smallest
\* occupied position overall.
C2_LookupIsSuccessorWithWrap ==
    [][IsLookup(outcome') /\ Occupied # {}
         => /\ outcome'.raised = ""
            /\ outcome'.result.node =
                 <<ring.vnode_at[Successor(Occupied, hash32(outcome'.args[1]))].physical>>]_vars

\* A lookup whose hash lies past every occupied position of a ring with
\* several nodes came back with the owner of the smallest position.
C2_Witness ==
    /\ IsLookup(outcome)
    /\ outcome.raised = ""
    /\ Cardinality(Live) >= 2
    /\ hash32(outcome.args[1]) > SetMax(Occupied)
    /\ outcome.result.node = <<ring.vnode_at[SetMin(Occupied)].physical>>
    /\ outcome.result.node # <<ring.vnode_at[SetMax(Occupied)].physical>>

\* C3: whenever the ring has at least one node, the lookup of every key
\* succeeds and returns a node that list_nodes lists.
C3_LookupCoversMembers ==
    Live # {} =>
        \A key \in Keys :
            LET r == get_node_for_key(ring, key)
            IN  /\ r.raised = ""
                /\ r.result.node_id \in Range(list_nodes(ring))

\* A lookup succeeded on a ring that has lost one node and kept another.
C3_Witness ==
    /\ IsLookup(outcome)
    /\ outcome.raised = ""
    /\ outcome.result.node[1].node_id \in Range(list_nodes(ring))
    /\ \E x \in NodeIdSet : last_call[x] = "remove_node" /\ x \notin Live

\* No list, index or lookup still knows node x.
NoResidue(x) ==
    /\ x \notin Range(list_nodes(ring))
    /\ x \notin DOMAIN ring.positions_by_node
    /\ \A p \in DOMAIN ring.vnode_at : ring.vnode_at[p].physical.node_id # x
    /\ \A p \in Range(ring.positions) :
           p \in DOMAIN ring.vnode_at /\ ring.vnode_at[p].physical.node_id # x
    /\ \A key \in Keys :
           LET r == get_node_for_key(ring, key)
           IN  r.raised = "" => r.result.node_id # x

RemovedBy(call, x) == call.op = "remove_node" /\ call.args = <<x>> /\ call.raised = ""

\* C4: a successful remove_node(x) lowers total_vnodes by exactly the number
\* of virtual nodes x had, which is vnodes_per_node; and from then until x
\* is added again, x is not listed, no position of the index or the mapping
\* belongs to a virtual node of x, and no key resolves to x.
C4_CleanRemoval ==
    /\ [](\A x \in NodeIdSet : last_call[x] = "remove_node" => NoResidue(x))
    /\ [][\A x \in NodeIdSet :
             RemovedBy(outcome', x)
                 => /\ x \in Live
                    /\ Len(ring.positions_by_node[x]) = ring.vnodes_per_node
                    /\ total_vnodes(ring') =
                           total_vnodes(ring) - Len(ring.positions_by_node[x])
                    /\ NoResidue(x)']_vars

\* A node with two virtual nodes has just been removed from a ring that
\* keeps other nodes, one of them at the removed node's first candidate
\* position (the two had collided).
C4_Witness ==
    /\ ring.vnodes_per_node = 2
    /\ \E x \in NodeIdSet :
           /\ RemovedBy(outcome, x)
           /\ last_call[x] = "remove_node"
           /\ hash32(vnode_key(VNode(Node(x), 0))) \in Occupied
    /\ Live # {}

\* C5: every node of the ring has a position list of exactly
\* vnodes_per_node pairwise-distinct positions, which vnode_at maps to that
\* node's virtual nodes with replica indices 0..K-1 once each; the lists of
\* different nodes are disjoint, together they are the occupied positions,
\* and total_vnodes = K * number of nodes.
C5_NodeIndexMatchesRing ==
    LET K      == ring.vnodes_per_node
        pl(n)  == ring.positions_by_node[n]
    IN  /\ \A n \in Live :
               /\ Len(pl(n)) = K
               /\ \A i, j \in 1..Len(pl(n)) : i # j => pl(n)[i] # pl(n)[j]
               /\ \A j \in 1..Len(pl(n)) :
                      /\ pl(n)[j] \in DOMAIN ring.vnode_at
                      /\ ring.vnode_at[pl(n)[j]].physical = Node(n)
               /\ \A i \in 0..K - 1 :
                      Cardinality({j \in 1..Len(pl(n)) :
                          ring.vnode_at[pl(n)[j]].replica_index = i}) = 1
        /\ \A m, n \in Live : m # n => Range(pl(m)) \cap Range(pl(n)) = {}
        /\ UNION {Range(pl(n)) : n \in Live} = Range(ring.positions)
        /\ UNION {Range(pl(n)) : n \in Live} = DOMAIN ring.vnode_at
        /\ total_vnodes(ring) = K * len(ring)

\* All three nodes are in a ring with K = 2, and some virtual node sits at
\* a re-hashed position because its first candidate was taken.
C5_Witness ==
    /\ ring.vnodes_per_node = 2
    /\ Live = NodeIdSet
    /\ \E n \in Live : \E j \in 1..Len(ring.positions_by_node[n]) :
           ring.positions_by_node[n][j] # hash32(vnode_key(VNode(Node(n), j - 1)))

\* C6: add_node with an identifier that is in the ring raises the
\* duplicate-node error and leaves positions, vnode_at and positions_by_node
\* as they were.
C6_DuplicateAddRejected ==
    [][\A x \in NodeIdSet :
           outcome'.op = "add_node" /\ outcome'.args = <<x>> /\ x \in Live
               => outcome'.raised = DuplicateNode(x) /\ ring' = ring]_vars

\* A duplicate add_node was just refused on a ring with two nodes or more.
C6_Witness ==
    /\ outcome.op = "add_node"
    /\ outcome.raised = DuplicateNode(outcome.args[1])
    /\ Cardinality(Live) >= 2
    /\ ring.vnodes_per_node = 2

\* C7: remove_node with an identifier that is not in the ring (never added,
\* or removed and not added again) raises the node-not-found error and
\* leaves positions, vnode_at and positions_by_node as they were.
C7_UnknownRemoveRejected ==
    [][\A x \in NodeIdSet :
           outcome'.op = "remove_node" /\ outcome'.args = <<x>>
             /\ last_call[x] \in {None, "remove_node"}
               => outcome'.raised = NodeNotFound(x) /\ ring' = ring]_vars

\* A node that had been added and removed was asked to be removed again,
\* on a ring that still holds another node.
C7_Witness ==
    /\ outcome.op = "remove_node"
    /\ outcome.raised = NodeNotFound(outcome.args[1])
    /\ last_call[outcome.args[1]] = "remove_node"
    /\ Live # {}

\* C8: a lookup raises the empty-ring error exactly when the ring holds no
\* virtual node, as a fresh ring does and a ring whose nodes were all
\* removed again; it then returns no node.
C8_EmptyRingError ==
    /\ [][IsLookup(outcome')
            => /\ outcome'.raised = EmptyRing <=> Occupied = {}
               /\ Occupied = {} => outcome'.result = NoResult]_vars
    /\ []((\A x \in NodeIdSet : last_call[x] # "add_node") => Occupied = {})

\* A lookup failed on a ring that had a node before and has none now.
C8_Witness ==
    /\ IsLookup(outcome)
    /\ outcome.raised = EmptyRing
    /\ \E x \in NodeIdSet : last_call[x] = "remove_node"

\* C10: get_node_for_key, list_nodes, total_vnodes, __len__ and map_keys
\* leave positions, vnode_at and positions_by_node as they were, whether
\* they return or raise.
C10_ReadsLeaveRingUnchanged ==
    [][outcome'.op \in {"get_node_for_key", "list_nodes", "total_vnodes",
                         "__len__", "map_keys"}
           => ring' = ring]_vars

\* map_keys returned a mapping of several keys on a ring with nodes.
C10_Witness ==
    /\ outcome.op = "map_keys"
    /\ outcome.raised = ""
    /\ Len(outcome.args) >= 3
    /\ DOMAIN outcome.result.mapping[1] = Range(outcome.args)
    /\ Cardinality(Live) >= 2

MismatchError == "ValueError: Key sets differ; cannot compare movement"

\* C11: moved_key_stats raises the key-set-mismatch error, returning
\* nothing, exactly when the two mappings differ in their key sets;
\* otherwise moved is the number of keys k with before[k] # after[k] and
\* total the number of keys, so 0 <= moved <= total.
C11_MovedKeyStats ==
    outcome.op = "moved_key_stats" =>
        LET before == outcome.maps[1]
            after  == outcome.maps[2]
        IN  IF DOMAIN before # DOMAIN after
            THEN outcome.raised = MismatchError /\ outcome.result = NoResult
            ELSE /\ outcome.raised = ""
                 /\ outcome.result.moved[1].moved =
                        Cardinality({k \in DOMAIN before : before[k] # after[k]})
                 /\ outcome.result.moved[1].total = Cardinality(DOMAIN before)
                 /\ 0 <= outcome.result.moved[1].moved
                 /\ outcome.result.moved[1].moved <= outcome.result.moved[1].total

\* Two mappings over the same three keys were compared; some keys moved
\* and some stayed.
C11_Witness ==
    /\ outcome.op = "moved_key_stats"
    /\ outcome.raised = ""
    /\ outcome.result.moved[1].total = 3
    /\ outcome.result.moved[1].moved = 2

\* C13: distribution_stats of an empty mapping is all zeros, raising
\* nothing; of a non-empty mapping, nodes is the number of distinct node ids
\* among the values, keys the number of entries, min and max the smallest
\* and largest per-node count. Only nodes owning a key are counted: min >= 1,
\* and nodes <= the ring's node count for a mapping map_keys produced.
C13_DistributionStats ==
    outcome.op = "distribution_stats" =>
        LET mapping  == outcome.maps[1]
            st       == outcome.result.stats[1]
            owners   == Range(mapping)
            owned(n) == Cardinality({k \in DOMAIN mapping : mapping[k] = n})
        IN  /\ outcome.raised = ""
            /\ IF DOMAIN mapping = {}
               THEN /\ st.nodes = 0 /\ st.keys = 0 /\ st.min = 0 /\ st.max = 0
                    /\ st.mean.num = 0 /\ st.variance.num = 0
                    /\ st.stdev.sqrt_of.num = 0
               ELSE /\ st.nodes = Cardinality(owners)
                    /\ st.keys = Cardinality(DOMAIN mapping)
                    /\ st.min = SetMin({owned(n) : n \in owners})
                    /\ st.max = SetMax({owned(n) : n \in owners})
                    /\ st.min >= 1
                    /\ st.nodes <= len(ring)

\* The statistics of a mapping in which one node of a three-node ring owns
\* no key and the other two own different numbers of keys.
C13_Witness ==
    /\ outcome.op = "distribution_stats"
    /\ len(ring) = 3
    /\ outcome.result.stats[1].nodes = 2
    /\ outcome.result.stats[1].min < outcome.result.stats[1].max

\* The statistics of an empty mapping.
C13_WitnessEmpty ==
    /\ outcome.op = "distribution_stats"
    /\ outcome.maps[1] = EmptyDict

AddedBy(call, x) == call.op = "add_node" /\ call.args = <<x>> /\ call.raised = ""

\* The a-th candidate position of a virtual node: hash(ringkey) for a = 0,
\* hash(ringkey@a) after.
Candidate(vnode, a) ==
    IF a = 0
    THEN hash32(vnode_key(vnode))
    ELSE hash32(vnode_key(vnode) \o "@" \o ToString(a))

\* The first candidate position outside occ.
FirstFree(occ, vnode) ==
    Candidate(vnode,
              CHOOSE a \in 0..MaxAttempt :
                  /\ Candidate(vnode, a) \notin occ
                  /\ \A b \in 0..a - 1 : Candidate(vnode, b) \in occ)

\* The positions replicas i..K-1 of node x take, one after the other, when
\* occ is occupied.
RECURSIVE Placement(_, _, _, _)
Placement(occ, x, i, K) ==
    IF i >= K
    THEN <<>>
    ELSE LET pos == FirstFree(occ, VNode(Node(x), i))
         IN  <<pos>> \o Placement(occ \cup {pos}, x, i + 1, K)

\* C14: add_node places replica i = 0..K-1, in this order, at the first
\* position of hash(ringkey), hash(ringkey@1), hash(ringkey@2), ... that is
\* unoccupied at that moment, positions of other nodes and of this call's
\* earlier replicas counting as occupied; no entry of vnode_at is overwritten.
C14_FirstFreeCandidate ==
    [][\A x \in NodeIdSet :
           AddedBy(outcome', x)
               => /\ ring'.positions_by_node[x] =
                        Placement(Occupied, x, 0, ring.vnodes_per_node)
                  /\ \A j \in 1..ring.vnodes_per_node :
                        ring'.vnode_at[ring'.positions_by_node[x][j]]
                            = VNode(Node(x), j - 1)
                  /\ \A p \in Occupied :
                        /\ p \in DOMAIN ring'.vnode_at
                        /\ ring'.vnode_at[p] = ring.vnode_at[p]]_vars

\* A node was added whose replica 0 was pushed by another node onto the
\* first candidate of its own replica 1, which then was re-hashed as well.
C14_Witness ==
    /\ ring.vnodes_per_node = 2
    /\ \E x \in NodeIdSet :
           /\ AddedBy(outcome, x)
           /\ ring.positions_by_node[x][1] # Candidate(VNode(Node(x), 0), 0)
           /\ ring.positions_by_node[x][1] = Candidate(VNode(Node(x), 1), 0)
           /\ ring.positions_by_node[x][2] # Candidate(VNode(Node(x), 1), 0)

\* The ring has unoccupied positions for one more node's replicas.
RoomForNode ==
    RING_SIZE - Cardinality(Occupied) >= ring.vnodes_per_node

\* C15: once the duplicate check passes, add_node completes whatever the
\* ring holds: every replica's re-hash loop ends on an unoccupied position,
\* nothing is raised and exactly K entries are added. An add this model
\* leaves incomplete while the ring had room for K more entries was cut by
\* MaxAttempt and decides nothing; one left incomplete without that room
\* is the loop of lines 66-68 finding every position occupied, for ever.
C15_AddNodeAlwaysCompletes ==
    \A x \in AllNodeIdSet \ Live :
        LET r == add_node(ring, Node(x))
        IN  \/ /\ r.completed
               /\ r.raised = ""
               /\ total_vnodes(r.self)
                      = total_vnodes(ring) + ring.vnodes_per_node
               /\ Cardinality(DOMAIN r.self.vnode_at)
                      = Cardinality(Occupied) + ring.vnodes_per_node
            \/ /\ ~r.completed
               /\ RoomForNode

RingCorruption == "RuntimeError: Ring corruption: position missing from sorted index"

\* The search of remove_node finds pos itself in the ordered positions.
FoundExactly(self, pos) ==
    LET idx == bisect_left(self.positions, pos)
    IN  idx < Len(self.positions) /\ self.positions[idx + 1] = pos

\* C16: in no state the operations reach does remove_node raise the ring
\* corruption error: the last call did not raise it, every position of
\* every live node's list is found by exact match in the ordered positions,
\* and removing any live node runs to its end, leaving vnode_at and the
\* ordered positions in step.
C16_NoRingCorruption ==
    /\ outcome.raised # RingCorruption
    /\ \A x \in Live :
           /\ \A j \in 1..Len(ring.positions_by_node[x]) :
                  FoundExactly(ring, ring.positions_by_node[x][j])
           /\ LET r == remove_node(ring, x)
              IN  /\ r.raised = ""
                  /\ DOMAIN r.self.vnode_at = Range(r.self.positions)
                  /\ Len(r.self.positions) = Cardinality(DOMAIN r.self.vnode_at)

\* A node with two virtual nodes was removed from between two others, its
\* positions neither the first nor the last of the ordered positions.
C16_Witness ==
    /\ ring.vnodes_per_node = 2
    /\ Cardinality(Live) = 2
    /\ outcome.op = "remove_node"
    /\ outcome.raised = ""
    /\ \E p \in 1..(RING_SIZE - 2) :
           /\ p \notin Occupied
           /\ p > SetMin(Occupied)
           /\ p < SetMax(Occupied)
           /\ \E i \in 0..1 : p = hash32(vnode_key(VNode(Node(outcome.args[1]), i)))

\* C17: across every successful add_node(f), each key resolves afterwards
\* to the node it resolved to before or to f, never to another node that
\* was already there; so the keys moved_key_stats counts as moved between
\* map_keys before and map_keys after are the keys f owns afterwards.
C17_AddMovesKeysOnlyToNewNode ==
    [][\A f \in NodeIdSet :
           AddedBy(outcome', f)
               => /\ \A key \in Keys :
                         LET b == get_node_for_key(ring, key)
                             a == get_node_for_key(ring', key)
                         IN  /\ a.raised = ""
                             /\ \/ a.result.node_id = f
                                \/ b.raised = "" /\ a.result = b.result
                  /\ Live # {}
                         => LET before == map_keys(ring, GeneratedKeys).result
                                after  == map_keys(ring', GeneratedKeys).result
                                stats  == moved_key_stats(before, after)
                            IN  /\ stats.raised = ""
                                /\ \A k \in DOMAIN before :
                                       before[k] # after[k] => after[k] = f
                                /\ stats.result.moved =
                                       Cardinality({k \in DOMAIN after :
                                                       after[k] = f})]_vars

\* A third node with two virtual nodes has just been added; it took some
\* keys and left some to each of the two nodes that were there.
C17_Witness ==
    /\ ring.vnodes_per_node = 2
    /\ Cardinality(Live) = 3
    /\ \E f \in NodeIdSet :
           /\ AddedBy(outcome, f)
           /\ \A x \in Live :
                  \E key \in Keys :
                      get_node_for_key(ring, key).result.node_id = x

\* C18: across every successful remove_node(x) that leaves a node in the
\* ring, a key that resolved to a node other than x resolves to the same
\* node afterwards, and a key that resolved to x resolves to a remaining
\* node: only the keys of x change owner.
C18_RemoveMovesOnlyKeysOfRemoved ==
    [][\A x \in NodeIdSet :
           (RemovedBy(outcome', x) /\ ring'.positions_by_node # EmptyDict)
               => \A key \in Keys :
                      LET b == get_node_for_key(ring, key)
                          a == get_node_for_key(ring', key)
                      IN  /\ b.raised = ""
                          /\ a.raised = ""
                          /\ b.result.node_id # x => a.result = b.result
                          /\ b.result.node_id = x
                                 => a.result.node_id \in DOMAIN ring'.positions_by_node]_vars

\* A node has just been removed from a ring of three with two virtual
\* nodes each; both remaining nodes own keys, and a key hashes into the
\* arc ending at the removed node's first candidate position, now free.
C18_Witness ==
    /\ ring.vnodes_per_node = 2
    /\ Cardinality(Live) = 2
    /\ \E x \in NodeIdSet :
           /\ RemovedBy(outcome, x)
           /\ last_call[x] = "remove_node"
           /\ \E key \in Keys :
                  LET c == hash32(vnode_key(VNode(Node(x), 0)))
                  IN  /\ c \notin Occupied
                      /\ hash32(key) <= c
                      /\ Successor(Occupied \cup {c}, hash32(key)) = c
    /\ \A y \in Live :
           \E key \in Keys : get_node_for_key(ring, key).result.node_id = y

\* Some replica of x would be placed by re-hashing if x were added now.
NeedsRehash(x) ==
    \E i \in 0..ring.vnodes_per_node - 1 :
        add_node(ring, Node(x)).self.positions_by_node[x][i + 1]
            # Candidate(VNode(Node(x), i), 0)

\* C19: in every reachable state and for every node x not in the ring,
\* an add_node(x) that returns, followed at once by remove_node(x), leaves
\* the ordered positions, vnode_at and positions_by_node exactly as they
\* were, re-hashed placements of x included, and with them the result of
\* every lookup.
C19_AddThenRemoveRestores ==
    \A x \in NodeIdSet \ Live :
        LET a == add_node(ring, Node(x))
            r == remove_node(a.self, x)
        IN  a.completed
                => /\ a.raised = ""
                   /\ a.self # ring
                   /\ r.raised = ""
                   /\ r.self.positions = ring.positions
                   /\ r.self.vnode_at = ring.vnode_at
                   /\ r.self.positions_by_node = ring.positions_by_node
                   /\ r.self = ring
                   /\ \A key \in Keys :
                          get_node_for_key(r.self, key)
                              = get_node_for_key(ring, key)

\* Two nodes with two virtual nodes each are in the ring, the third has
\* just been removed, and adding it again would place one of its virtual
\* nodes by re-hashing.
C19_Witness ==
    /\ ring.vnodes_per_node = 2
    /\ Cardinality(Live) = 2
    /\ \E x \in NodeIdSet \ Live :
           /\ RemovedBy(outcome, x)
           /\ NeedsRehash(x)

\* The nodes some add_node has put in the ring so far.
EverAdded == {x \in NodeIdSet : last_call[x] # None}

\* The virtual nodes of the nodes in S.
VNodesOf(S) ==
    {VNode(Node(x), i) : x \in S, i \in 0..ring.vnodes_per_node - 1}

\* No two ring keys of virtual nodes of nodes ever added hash to the same
\* position, so no add_node has re-hashed.
NoCollisionSoFar ==
    \A v, w \in VNodesOf(EverAdded) :
        v # w => Candidate(v, 0) # Candidate(w, 0)

\* The elements of a set of positions in ascending order.
RECURSIVE Ascending(_)
Ascending(S) ==
    IF S = {}
    THEN <<>>
    ELSE <<SetMin(S)>> \o Ascending(S \ {SetMin(S)})

\* The ring that holds each virtual node of the nodes in S at the hash of
\* its ring key: a function of S and vnodes_per_node alone.
LayoutOf(S) ==
    [vnodes_per_node   |-> ring.vnodes_per_node,
     positions         |-> Ascending({Candidate(v, 0) : v \in VNodesOf(S)}),
     vnode_at          |-> [p \in {Candidate(v, 0) : v \in VNodesOf(S)} |->
                               CHOOSE v \in VNodesOf(S) : Candidate(v, 0) = p],
     positions_by_node |-> [x \in S |->
                               [j \in 1..ring.vnodes_per_node |->
                                   Candidate(VNode(Node(x), j - 1), 0)]]]

\* C20: as long as no two ring keys of the nodes added so far hash to the
\* same position, the ring is determined by the set of live nodes, whatever
\* the order of the adds and the removals and re-adds in between: its
\* ordered positions, vnode_at and positions_by_node are those of
\* LayoutOf(Live), and every key resolves to the node LayoutOf(Live) holds
\* at the successor of the key's hash.
C20_LayoutDependsOnLiveSetOnly ==
    NoCollisionSoFar
        => /\ ring.positions = LayoutOf(Live).positions
           /\ ring.vnode_at = LayoutOf(Live).vnode_at
           /\ ring.positions_by_node = LayoutOf(Live).positions_by_node
           /\ ring = LayoutOf(Live)
           /\ Live # {}
                  => \A key \in Keys :
                         get_node_for_key(ring, key).result =
                             LayoutOf(Live).vnode_at[
                                 Successor(DOMAIN LayoutOf(Live).vnode_at,
                                           hash32(key))].physical

\* Without any collision so far, the ring holds two nodes with two virtual
\* nodes each, and the node added last owns the smallest position: its
\* positions were inserted before those of the node added first.
C20_Witness ==
    /\ NoCollisionSoFar
    /\ ring.vnodes_per_node = 2
    /\ Cardinality(Live) = 2
    /\ \E x \in Live :
           /\ AddedBy(outcome, x)
           /\ SetMin(Occupied) \in Range(ring.positions_by_node[x])

====
